---- MODULE Spec2Model ----
(***************************************************************************)
(* Model of the UUID generator's Python binding                            *)
(* (src/bindings/python/uuid_generator.py) together with the four native   *)
(* functions it calls through ctypes (uuid_generate_v4, uuid_to_string,    *)
(* uuid_get_info, uuid_compare).  The native library is not part of the    *)
(* sources at hand; its four functions are modelled from sections 3, 4     *)
(* and 6 of the design document.                                           *)
(*                                                                         *)
(* Bytes are integers 0..255, a buffer is a sequence of bytes (1-indexed:  *)
(* byte k of the source is element k+1 here), a character is a one         *)
(* character string and a C string buffer is a sequence of characters.     *)
(***************************************************************************)
EXTENDS Integers, Sequences, FiniteSets

VARIABLES objs, last, default_generator, constructed, thr

vars == <<objs, last, default_generator, constructed, thr>>

(***************************************************************************)
(* Bounds of the model.                                                    *)
(***************************************************************************)
\* Uuid objects alive at once.
MaxObjs == 2
\* Threads making a first call to a module-level convenience function.
NumThreads == 2
\* Physical size of the caller's buffer in a direct to_string call.
CallerBufLen == 39

(***************************************************************************)
(* Program constants.                                                      *)
(***************************************************************************)
\* len(uuid_bytes) != 16, (ctypes.c_uint8 * 16)
UuidLen == 16
\* ctypes.create_string_buffer(37)
StrBufferSize == 37
\* to_string fails BufferTooSmall if out_capacity < 37
MinStringCapacity == 37
\* canonical form: 36 characters
CanonicalLen == 36

NUL == "NUL"
Sentinel == "#"
HexDigits == <<"0", "1", "2", "3", "4", "5", "6", "7",
               "8", "9", "a", "b", "c", "d", "e", "f">>

(***************************************************************************)
(* Inputs: sample 16-byte buffers, malformed buffers, status codes.        *)
(***************************************************************************)
TestVector == <<0, 0, 0, 0, 0, 0, 64, 0, 128, 0, 0, 0, 0, 0, 0, 0>>
AllZero == [i \in 1..16 |-> 0]
AllOnes == [i \in 1..16 |-> 255]
Mixed == <<1, 35, 69, 103, 137, 171, 205, 239,
           254, 220, 186, 152, 118, 84, 50, 16>>
MixedLast == [Mixed EXCEPT ![16] = 17]

SampleBytes == {TestVector, AllZero, AllOnes, Mixed, MixedLast}
BadBytes == {SubSeq(Mixed, 1, 15), Append(Mixed, 0), <<>>}
SampleStatuses == {0, 1, 2, 3, 99, 4, 98, 100, -1, 2147483647}
Capacities == {0, 10, 36, 37, 38}

EntropyOutcomes ==
    {[kind |-> "ok", bytes |-> b] : b \in SampleBytes}
        \cup {[kind |-> "fail", bytes |-> <<>>], [kind |-> "fault", bytes |-> <<>>]}

(***************************************************************************)
(* The native library (modelled from the design document).                 *)
(***************************************************************************)
\* Generate: overwrite byte 6's high nibble with 0100 and byte 8's top two
\* bits with 10, leave all other bits untouched.
impose_v4(raw) ==
    [raw EXCEPT ![7] = (raw[7] % 16) + 64, ![9] = (raw[9] % 64) + 128]

\* Entropy source: 16 random bytes, or a failure signal.
entropy_status(entropy) ==
    CASE entropy.kind = "ok" -> 0
      [] entropy.kind = "fail" -> 1
      [] OTHER -> 99

\* generate_v4(out_buffer): one read of the entropy source; on success the
\* identifier is written to out, on failure out is left as it was.
uuid_generate_v4(out, entropy) ==
    IF entropy_status(entropy) = 0
    THEN [status |-> 0, out |-> impose_v4(entropy.bytes)]
    ELSE [status |-> entropy_status(entropy), out |-> out]

Hex(n) == HexDigits[n + 1]

RECURSIVE HexOfBytes(_)
HexOfBytes(bs) ==
    IF bs = <<>> THEN <<>>
    ELSE <<Hex(Head(bs) \div 16), Hex(Head(bs) % 16)>> \o HexOfBytes(Tail(bs))

\* Canonical string form: 8-4-4-4-12 lowercase hex digits.
Canonical(in) ==
    HexOfBytes(SubSeq(in, 1, 4)) \o <<"-">> \o
    HexOfBytes(SubSeq(in, 5, 6)) \o <<"-">> \o
    HexOfBytes(SubSeq(in, 7, 8)) \o <<"-">> \o
    HexOfBytes(SubSeq(in, 9, 10)) \o <<"-">> \o
    HexOfBytes(SubSeq(in, 11, 16))

\* to_string writing as much of the text as fits before it reports
\* BufferTooSmall.
uuid_to_string_truncating(in, out, cap) ==
    LET text == Canonical(in)
    IN  IF cap < MinStringCapacity
        THEN [status |-> 3,
              out |-> [i \in 1..Len(out) |-> IF i <= cap THEN text[i] ELSE out[i]]]
        ELSE [status |-> 0,
              out |-> [i \in 1..Len(out) |->
                         IF i <= CanonicalLen THEN text[i]
                         ELSE IF i = CanonicalLen + 1 THEN NUL
                         ELSE out[i]]]

\* to_string(in_buffer, out_string, out_capacity)
uuid_to_string(in, out, cap) ==
    IF cap < MinStringCapacity
    THEN [status |-> 3, out |-> out]
    ELSE LET text == Canonical(in)
         IN  [status |-> 0,
              out |-> [i \in 1..Len(out) |->
                         IF i <= CanonicalLen THEN text[i]
                         ELSE IF i = CanonicalLen + 1 THEN NUL
                         ELSE out[i]]]

\* get_info(in_buffer, out_version, out_variant)
uuid_get_info(in) ==
    [status |-> 0, version |-> in[7] \div 16, variant |-> in[9] \div 64]

\* compare(a, b, out_equal)
uuid_compare(a, b) ==
    [status |-> 0,
     equal |-> IF \A i \in 1..UuidLen : a[i] = b[i] THEN 1 ELSE 0]

(***************************************************************************)
(* ctypes marshalling.                                                     *)
(***************************************************************************)
\* (ctypes.c_uint8 * 16)(): zero-initialised.
NewCArray == [i \in 1..UuidLen |-> 0]

\* (ctypes.c_uint8 * 16)(*b): each element stored as an unsigned 8-bit value.
CArray(b) == [i \in 1..UuidLen |-> IF i <= Len(b) THEN b[i] % 256 ELSE 0]

\* bytes(uuid_bytes)
ToBytes(arr) == [i \in 1..Len(arr) |-> arr[i]]

\* ctypes.create_string_buffer(n): n NUL characters.
create_string_buffer(n) == [i \in 1..n |-> NUL]

\* buffer.value: the characters before the first NUL.
RECURSIVE BufferValue(_)
BufferValue(buf) ==
    IF buf = <<>> \/ Head(buf) = NUL THEN <<>>
    ELSE <<Head(buf)>> \o BufferValue(Tail(buf))

(***************************************************************************)
(* uuid_generator.py: error codes.                                         *)
(***************************************************************************)
ERROR_CODES ==
    [c \in {1, 2, 3, 99} |->
        CASE c = 1 -> "EntropyError"
          [] c = 2 -> "InvalidParameterError"
          [] c = 3 -> "BufferTooSmallError"
          [] OTHER -> "UnknownError"]

\* check_error with the test written result > 0: a negative status passes.
check_error_positive_only(result) ==
    IF result > 0
    THEN IF result \in DOMAIN ERROR_CODES THEN ERROR_CODES[result]
         ELSE "UnknownError"
    ELSE "None"

\* The exception _check_error raises, "None" when it returns normally.
check_error(result) ==
    IF result # 0
    THEN IF result \in DOMAIN ERROR_CODES THEN ERROR_CODES[result]
         ELSE "UnknownError"
    ELSE "None"

(***************************************************************************)
(* uuid_generator.py: class Uuid.                                          *)
(***************************************************************************)
NoUuid == [bytes |-> <<>>, generator |-> 0]

\* Uuid.__init__ without its length check.
Uuid_init_unchecked(uuid_bytes, generator) ==
    [error |-> "None", uuid |-> [bytes |-> uuid_bytes, generator |-> generator]]

\* Uuid.__init__ normalising the bytes it is given to version 4.
Uuid_init_imposing(uuid_bytes, generator) ==
    IF Len(uuid_bytes) # UuidLen
    THEN [error |-> "ValueError", uuid |-> NoUuid]
    ELSE [error |-> "None",
          uuid |-> [bytes |-> impose_v4(uuid_bytes), generator |-> generator]]

Uuid_init(uuid_bytes, generator) ==
    IF Len(uuid_bytes) # UuidLen
    THEN [error |-> "ValueError", uuid |-> NoUuid]
    ELSE [error |-> "None",
          uuid |-> [bytes |-> uuid_bytes, generator |-> generator]]

Uuid_bytes(u) == u.bytes

\* Uuid.__str__ decoding buffer.raw instead of buffer.value.
Uuid_str_raw(u) ==
    LET uuid_array == CArray(u.bytes)
        buffer == create_string_buffer(StrBufferSize)
        r == uuid_to_string(uuid_array, buffer, Len(buffer))
        err == check_error(r.status)
    IN  [error |-> err, status |-> r.status, libcalls |-> 1,
         value |-> IF err = "None" THEN r.out ELSE <<>>]

Uuid_str(u) ==
    LET uuid_array == CArray(u.bytes)
        buffer == create_string_buffer(StrBufferSize)
        r == uuid_to_string(uuid_array, buffer, Len(buffer))
        err == check_error(r.status)
    IN  [error |-> err, status |-> r.status, libcalls |-> 1,
         value |-> IF err = "None" THEN BufferValue(r.out) ELSE <<>>]

\* Uuid.__eq__ building both arrays from self._bytes.
Uuid_eq_self(u, other) ==
    LET uuid1_array == CArray(u.bytes)
        uuid2_array == CArray(u.bytes)
        r == uuid_compare(uuid1_array, uuid2_array)
        err == check_error(r.status)
    IN  [error |-> err, status |-> r.status, libcalls |-> 1,
         value |-> IF err = "None" THEN r.equal # 0 ELSE FALSE]

Uuid_eq(u, other) ==
    LET uuid1_array == CArray(u.bytes)
        uuid2_array == CArray(other.bytes)
        r == uuid_compare(uuid1_array, uuid2_array)
        err == check_error(r.status)
    IN  [error |-> err, status |-> r.status, libcalls |-> 1,
         value |-> IF err = "None" THEN r.equal # 0 ELSE FALSE]

\* hash(self._bytes): a function of the bytes' content alone.  Python's
\* bytes hash is not specified further; a positional sum stands for it.
RECURSIVE BytesHash(_)
BytesHash(b) == IF b = <<>> THEN 7 ELSE (31 * BytesHash(Tail(b)) + Head(b)) % 65536

Uuid_hash(u) == BytesHash(u.bytes)

\* Uuid.version returning variant.value.
Uuid_version_swapped(u) ==
    LET uuid_array == CArray(u.bytes)
        r == uuid_get_info(uuid_array)
        err == check_error(r.status)
    IN  [error |-> err, status |-> r.status, libcalls |-> 1,
         value |-> IF err = "None" THEN r.variant ELSE 0]

Uuid_version(u) ==
    LET uuid_array == CArray(u.bytes)
        r == uuid_get_info(uuid_array)
        err == check_error(r.status)
    IN  [error |-> err, status |-> r.status, libcalls |-> 1,
         value |-> IF err = "None" THEN r.version ELSE 0]

Uuid_variant(u) ==
    LET uuid_array == CArray(u.bytes)
        r == uuid_get_info(uuid_array)
        err == check_error(r.status)
    IN  [error |-> err, status |-> r.status, libcalls |-> 1,
         value |-> IF err = "None" THEN r.variant ELSE 0]

Uuid_info(u) ==
    LET ver == Uuid_version(u)
        var == Uuid_variant(u)
    IN  IF ver.error # "None"
        THEN [error |-> ver.error, status |-> ver.status, libcalls |-> 1,
              value |-> <<0, 0>>]
        ELSE [error |-> var.error, status |-> var.status, libcalls |-> 2,
              value |-> IF var.error = "None" THEN <<ver.value, var.value>>
                        ELSE <<0, 0>>]

(***************************************************************************)
(* uuid_generator.py: class UuidGenerator.                                 *)
(***************************************************************************)
\* generate without its _check_error call: the buffer is used whatever the
\* status.
generate_unchecked(gen, entropy) ==
    LET uuid_bytes == NewCArray
        r == uuid_generate_v4(uuid_bytes, entropy)
        made == Uuid_init(ToBytes(r.out), gen)
    IN  [error |-> made.error, status |-> r.status, libcalls |-> 1,
         uuid |-> made.uuid]

\* generate calling uuid_generate_v4 a second time when the first call fails.
generate_retry(gen, entropy) ==
    LET uuid_bytes == NewCArray
        first == uuid_generate_v4(uuid_bytes, entropy)
        r == IF first.status # 0 THEN uuid_generate_v4(first.out, entropy)
             ELSE first
        err == check_error(r.status)
        made == Uuid_init(ToBytes(r.out), gen)
    IN  IF err # "None"
        THEN [error |-> err, status |-> r.status,
              libcalls |-> IF first.status # 0 THEN 2 ELSE 1, uuid |-> NoUuid]
        ELSE [error |-> made.error, status |-> r.status, libcalls |-> 1,
              uuid |-> made.uuid]

UuidGenerator_generate(gen, entropy) ==
    LET uuid_bytes == NewCArray
        r == uuid_generate_v4(uuid_bytes, entropy)
        err == check_error(r.status)
        made == Uuid_init(ToBytes(r.out), gen)
    IN  IF err # "None"
        THEN [error |-> err, status |-> r.status, libcalls |-> 1, uuid |-> NoUuid]
        ELSE [error |-> made.error, status |-> r.status, libcalls |-> 1,
              uuid |-> made.uuid]

UuidGenerator_from_bytes(gen, uuid_bytes) ==
    IF Len(uuid_bytes) # UuidLen
    THEN [error |-> "ValueError", uuid |-> NoUuid]
    ELSE Uuid_init(uuid_bytes, gen)

(***************************************************************************)
(* State.                                                                  *)
(*   objs   the Uuid objects alive, each with the way it was made          *)
(*          (origin) and the bytes the caller passed (input);              *)
(*   last   the outcome of the last call;                                  *)
(*   default_generator, constructed, thr: the module-level default         *)
(*          generator (0 is None), the number of UuidGenerator             *)
(*          instances constructed, and the threads inside                  *)
(*          get_generator.                                                 *)
(***************************************************************************)
NoCall ==
    [op |-> "none", self |-> 0, other |-> 0, arg |-> <<>>, cap |-> 0,
     status |-> 0, libcalls |-> 0, error |-> "None", created |-> 0,
     retStr |-> <<>>, retInt |-> 0, retBool |-> FALSE, retPair |-> <<0, 0>>,
     buf |-> <<>>]

Track(uuid, origin, input) ==
    [bytes |-> uuid.bytes, generator |-> uuid.generator,
     origin |-> origin, input |-> input]

IdleThreads == [t \in 1..NumThreads |-> [pc |-> "idle", op |-> "none", tmp |-> 0, ret |-> 0]]

\* One explicitly constructed generator (generator = UuidGenerator()).
Init ==
    /\ objs = <<>>
    /\ last = NoCall
    /\ default_generator = 0
    /\ constructed = 1
    /\ thr = IdleThreads

threadVars == <<default_generator, constructed, thr>>

\* generator.generate()
Generate ==
    /\ Len(objs) < MaxObjs
    /\ \E entropy \in EntropyOutcomes :
         LET r == UuidGenerator_generate(1, entropy)
             ok == r.error = "None"
         IN  /\ objs' = IF ok THEN Append(objs, Track(r.uuid, "generate", <<>>))
                        ELSE objs
             /\ last' = [NoCall EXCEPT !.op = "generate", !.status = r.status,
                                       !.libcalls = r.libcalls, !.error = r.error,
                                       !.created = IF ok THEN Len(objs) + 1 ELSE 0]
    /\ UNCHANGED threadVars

\* generator.from_bytes(uuid_bytes)
FromBytes ==
    /\ Len(objs) < MaxObjs
    /\ \E b \in SampleBytes \cup BadBytes :
         LET r == UuidGenerator_from_bytes(1, b)
             ok == r.error = "None"
         IN  /\ objs' = IF ok THEN Append(objs, Track(r.uuid, "from_bytes", b))
                        ELSE objs
             /\ last' = [NoCall EXCEPT !.op = "from_bytes", !.arg = b,
                                       !.error = r.error,
                                       !.created = IF ok THEN Len(objs) + 1 ELSE 0]
    /\ UNCHANGED threadVars

\* Uuid(uuid_bytes, generator)
NewUuid ==
    /\ Len(objs) < MaxObjs
    /\ \E b \in SampleBytes \cup BadBytes :
         LET r == Uuid_init(b, 1)
             ok == r.error = "None"
         IN  /\ objs' = IF ok THEN Append(objs, Track(r.uuid, "from_bytes", b))
                        ELSE objs
             /\ last' = [NoCall EXCEPT !.op = "init", !.arg = b,
                                       !.error = r.error,
                                       !.created = IF ok THEN Len(objs) + 1 ELSE 0]
    /\ UNCHANGED threadVars

\* uuid.bytes
Bytes ==
    /\ \E i \in 1..Len(objs) :
         last' = [NoCall EXCEPT !.op = "bytes", !.self = i,
                                !.buf = Uuid_bytes(objs[i])]
    /\ UNCHANGED <<objs, threadVars>>

\* str(uuid)
Str ==
    /\ \E i \in 1..Len(objs) :
         LET r == Uuid_str(objs[i])
         IN  last' = [NoCall EXCEPT !.op = "str", !.self = i, !.cap = StrBufferSize,
                                    !.status = r.status, !.libcalls = r.libcalls,
                                    !.error = r.error, !.retStr = r.value]
    /\ UNCHANGED <<objs, threadVars>>

\* uuid == other, other a Uuid (j >= 1) or not one (j = 0)
Eq ==
    /\ \E i \in 1..Len(objs), j \in 0..Len(objs) :
         IF j = 0
         THEN last' = [NoCall EXCEPT !.op = "eq", !.self = i, !.other = 0,
                                     !.retBool = FALSE]
         ELSE LET r == Uuid_eq(objs[i], objs[j])
              IN  last' = [NoCall EXCEPT !.op = "eq", !.self = i, !.other = j,
                                         !.status = r.status, !.libcalls = r.libcalls,
                                         !.error = r.error, !.retBool = r.value]
    /\ UNCHANGED <<objs, threadVars>>

\* hash(uuid)
Hash ==
    /\ \E i \in 1..Len(objs) :
         last' = [NoCall EXCEPT !.op = "hash", !.self = i,
                                !.retInt = Uuid_hash(objs[i])]
    /\ UNCHANGED <<objs, threadVars>>

\* uuid.version()
Version ==
    /\ \E i \in 1..Len(objs) :
         LET r == Uuid_version(objs[i])
         IN  last' = [NoCall EXCEPT !.op = "version", !.self = i,
                                    !.status = r.status, !.libcalls = r.libcalls,
                                    !.error = r.error, !.retInt = r.value]
    /\ UNCHANGED <<objs, threadVars>>

\* uuid.variant()
Variant ==
    /\ \E i \in 1..Len(objs) :
         LET r == Uuid_variant(objs[i])
         IN  last' = [NoCall EXCEPT !.op = "variant", !.self = i,
                                    !.status = r.status, !.libcalls = r.libcalls,
                                    !.error = r.error, !.retInt = r.value]
    /\ UNCHANGED <<objs, threadVars>>

\* uuid.info()
Info ==
    /\ \E i \in 1..Len(objs) :
         LET r == Uuid_info(objs[i])
         IN  last' = [NoCall EXCEPT !.op = "info", !.self = i,
                                    !.status = r.status, !.libcalls = r.libcalls,
                                    !.error = r.error, !.retPair = r.value]
    /\ UNCHANGED <<objs, threadVars>>

\* generator._check_error(result)
CheckError ==
    /\ \E result \in SampleStatuses :
         last' = [NoCall EXCEPT !.op = "check_error", !.status = result,
                                !.error = check_error(result)]
    /\ UNCHANGED <<objs, threadVars>>

\* A direct call of the exported to_string with a caller-owned buffer of
\* CallerBufLen characters and a stated capacity, the status mapped as
\* every wrapper call maps it.
ToStringCall ==
    /\ \E i \in 1..Len(objs), cap \in Capacities :
         LET before == [k \in 1..CallerBufLen |-> Sentinel]
             r == uuid_to_string(CArray(objs[i].bytes), before, cap)
         IN  last' = [NoCall EXCEPT !.op = "to_string", !.self = i, !.cap = cap,
                                    !.status = r.status, !.libcalls = 1,
                                    !.error = check_error(r.status),
                                    !.buf = r.out]
    /\ UNCHANGED <<objs, threadVars>>

\* The caller drops its reference to the most recent Uuid.
Release ==
    /\ objs # <<>>
    /\ objs' = SubSeq(objs, 1, Len(objs) - 1)
    /\ last' = NoCall
    /\ UNCHANGED threadVars

Next ==
    \/ Generate
    \/ FromBytes
    \/ NewUuid
    \/ Bytes
    \/ Str
    \/ Eq
    \/ Hash
    \/ Version
    \/ Variant
    \/ Info
    \/ CheckError
    \/ ToStringCall
    \/ Release

Spec == Init /\ [][Next]_vars

(***************************************************************************)
(* Module-level convenience functions, called from several threads.        *)
(* get_generator is three bytecode-level steps: the test of the global     *)
(* (line 262), the construction of a UuidGenerator and the store to the    *)
(* global (line 263), and the load of the global that is returned          *)
(* (line 264).  The interpreter may switch threads between any two.        *)
(***************************************************************************)
Threads == 1..NumThreads

InitThreads ==
    /\ objs = <<>>
    /\ last = NoCall
    /\ default_generator = 0
    /\ constructed = 0
    /\ thr = IdleThreads

\* A thread calls get_generator(), uuid4() or from_bytes(b).
Call(t) ==
    /\ thr[t].pc = "idle"
    /\ \E op \in {"get_generator", "uuid4", "from_bytes"} :
         thr' = [thr EXCEPT ![t].pc = "check", ![t].op = op]
    /\ UNCHANGED <<objs, last, default_generator, constructed>>

\* if _default_generator is None:
Check(t) ==
    /\ thr[t].pc = "check"
    /\ thr' = [thr EXCEPT ![t].pc = IF default_generator = 0 THEN "construct"
                                    ELSE "return"]
    /\ UNCHANGED <<objs, last, default_generator, constructed>>

\* UuidGenerator()
Construct(t) ==
    /\ thr[t].pc = "construct"
    /\ constructed' = constructed + 1
    /\ thr' = [thr EXCEPT ![t].pc = "assign", ![t].tmp = constructed + 1]
    /\ UNCHANGED <<objs, last, default_generator>>

\* _default_generator = <the new instance>
Assign(t) ==
    /\ thr[t].pc = "assign"
    /\ default_generator' = thr[t].tmp
    /\ thr' = [thr EXCEPT ![t].pc = "return"]
    /\ UNCHANGED <<objs, last, constructed>>

\* return _default_generator
Return(t) ==
    /\ thr[t].pc = "return"
    /\ thr' = [thr EXCEPT ![t].ret = default_generator,
                          ![t].pc = IF thr[t].op = "get_generator" THEN "done"
                                    ELSE "method"]
    /\ UNCHANGED <<objs, last, default_generator, constructed>>

\* uuid4(): get_generator().generate()
Uuid4(t) ==
    /\ thr[t].pc = "method"
    /\ thr[t].op = "uuid4"
    /\ \E entropy \in EntropyOutcomes :
         LET r == UuidGenerator_generate(thr[t].ret, entropy)
             ok == r.error = "None"
         IN  /\ objs' = IF ok THEN Append(objs, Track(r.uuid, "generate", <<>>))
                        ELSE objs
             /\ last' = [NoCall EXCEPT !.op = "generate", !.status = r.status,
                                       !.libcalls = r.libcalls, !.error = r.error,
                                       !.created = IF ok THEN Len(objs) + 1 ELSE 0]
    /\ thr' = [thr EXCEPT ![t].pc = "done"]
    /\ UNCHANGED <<default_generator, constructed>>

\* from_bytes(uuid_bytes): get_generator().from_bytes(uuid_bytes)
ModuleFromBytes(t) ==
    /\ thr[t].pc = "method"
    /\ thr[t].op = "from_bytes"
    /\ \E b \in SampleBytes \cup BadBytes :
         LET r == UuidGenerator_from_bytes(thr[t].ret, b)
             ok == r.error = "None"
         IN  /\ objs' = IF ok THEN Append(objs, Track(r.uuid, "from_bytes", b))
                        ELSE objs
             /\ last' = [NoCall EXCEPT !.op = "from_bytes", !.arg = b,
                                       !.error = r.error,
                                       !.created = IF ok THEN Len(objs) + 1 ELSE 0]
    /\ thr' = [thr EXCEPT ![t].pc = "done"]
    /\ UNCHANGED <<default_generator, constructed>>

NextThreads ==
    \E t \in Threads :
        \/ Call(t)
        \/ Check(t)
        \/ Construct(t)
        \/ Assign(t)
        \/ Return(t)
        \/ Uuid4(t)
        \/ ModuleFromBytes(t)

SpecThreads == InitThreads /\ [][NextThreads]_vars

(***************************************************************************)
(* Properties.                                                             *)
(***************************************************************************)
Generated(i) == objs[i].origin = "generate"
Parsed(i) == objs[i].origin = "from_bytes"
UuidErrors == {"EntropyError", "InvalidParameterError", "BufferTooSmallError",
               "UnknownError"}
LowerHex == {"0", "1", "2", "3", "4", "5", "6", "7",
             "8", "9", "a", "b", "c", "d", "e", "f"}
HyphenAt == {9, 14, 19, 24}

\* 36 characters, hyphens at (0-based) positions 8, 13, 18 and 23, lowercase
\* hex digits everywhere else.
IsCanonicalText(s) ==
    /\ Len(s) = 36
    /\ \A p \in 1..36 : IF p \in HyphenAt THEN s[p] = "-" ELSE s[p] \in LowerHex

\* C1: every identifier generate returns has 0100 in the high nibble of
\* byte 6 and 10 in the top two bits of byte 8, whatever the entropy source
\* supplied, and version() returns 4 and variant() returns 2 on it.
C1_GeneratedIsVersion4 ==
    /\ \A i \in 1..Len(objs) :
         Generated(i) =>
            /\ Len(objs[i].bytes) = 16
            /\ objs[i].bytes[7] \div 16 = 4
            /\ objs[i].bytes[9] \div 64 = 2
    /\ (last.op = "version" /\ Generated(last.self)) =>
            (last.error = "None" /\ last.retInt = 4)
    /\ (last.op = "variant" /\ Generated(last.self)) =>
            (last.error = "None" /\ last.retInt = 2)
    /\ (last.op = "info" /\ Generated(last.self)) =>
            (last.error = "None" /\ last.retPair = <<4, 2>>)

\* version() has just returned 4 on an identifier generated from sixteen
\* 0xff bytes of entropy (byte 6 is 0x4f, byte 8 is 0xbf).
C1_Witness ==
    /\ last.op = "version"
    /\ Generated(last.self)
    /\ objs[last.self].bytes[7] = 79
    /\ objs[last.self].bytes[9] = 191
    /\ last.retInt = 4

\* C2: to_string either succeeds with exactly 36 characters of the form
\* 8-4-4-4-12 lowercase hex (then a terminator), or fails with
\* BufferTooSmall (status 3) when the stated capacity is below 37; no
\* position at or beyond the stated capacity is written; the text
\* str(uuid) returns is that 36-character text.
C2_ToStringOutcome ==
    /\ last.op = "to_string" =>
         /\ \/ /\ last.status = 0
               /\ last.error = "None"
               /\ last.cap >= 37
               /\ IsCanonicalText(SubSeq(last.buf, 1, 36))
               /\ last.buf[37] = NUL
            \/ /\ last.status = 3
               /\ last.error = "BufferTooSmallError"
               /\ last.cap < 37
         /\ \A k \in 1..Len(last.buf) : k > last.cap => last.buf[k] = Sentinel
    /\ last.op = "str" =>
         \/ /\ last.status = 0
            /\ last.error = "None"
            /\ last.cap >= 37
            /\ IsCanonicalText(last.retStr)
         \/ /\ last.status = 3
            /\ last.error = "BufferTooSmallError"
            /\ last.cap < 37

\* str(uuid) has just returned 01234567-89ab-cdef-fedc-ba9876543210.
C2_Witness ==
    /\ last.op = "str"
    /\ objs[last.self].bytes = Mixed
    /\ last.retStr = <<"0", "1", "2", "3", "4", "5", "6", "7", "-",
                       "8", "9", "a", "b", "-", "c", "d", "e", "f", "-",
                       "f", "e", "d", "c", "-",
                       "b", "a", "9", "8", "7", "6", "5", "4", "3", "2", "1", "0">>

\* C3 as stated: a buffer whose length is not 16 fails with InvalidParameter
\* before anything else happens (no Uuid is created, no library function
\* is called).
C3_WrongLengthIsInvalidParameter ==
    (last.op \in {"from_bytes", "init"} /\ Len(last.arg) # 16) =>
        /\ last.error = "InvalidParameterError"
        /\ last.created = 0
        /\ last.libcalls = 0

\* C3 as amended: a buffer whose length is not 16 passed to from_bytes or
\* to Uuid(...) fails with ValueError before anything else happens: no
\* Uuid is created and no library function is called; and every Uuid that
\* exists holds exactly 16 bytes.
C3_WrongLengthIsValueError ==
    /\ (last.op \in {"from_bytes", "init"} /\ Len(last.arg) # 16) =>
          /\ last.error = "ValueError"
          /\ last.created = 0
          /\ last.libcalls = 0
    /\ \A i \in 1..Len(objs) : Len(objs[i].bytes) = 16

\* from_bytes has just refused a 15-byte buffer while a Uuid existed.
C3_Witness ==
    /\ last.op = "from_bytes"
    /\ Len(last.arg) = 15
    /\ last.error = "ValueError"
    /\ Len(objs) = 1

\* C4: status 0 raises nothing; 1 raises EntropyError, 2
\* InvalidParameterError, 3 BufferTooSmallError, 99 UnknownError, and
\* every other nonzero status UnknownError: no nonzero status passes as
\* success.
C4_StatusMapping ==
    /\ last.status = 0 => last.error \notin UuidErrors
    /\ last.status = 1 => last.error = "EntropyError"
    /\ last.status = 2 => last.error = "InvalidParameterError"
    /\ last.status = 3 => last.error = "BufferTooSmallError"
    /\ last.status = 99 => last.error = "UnknownError"
    /\ last.status \notin {0, 1, 2, 3, 99} => last.error = "UnknownError"

\* _check_error has just turned the (negative) status -1 into UnknownError.
C4_Witness ==
    /\ last.op = "check_error"
    /\ last.status = -1
    /\ last.error = "UnknownError"

\* C5: a Uuid made from caller bytes b holds b unchanged, whatever calls
\* (str, version, variant, info, ==, hash) were made since, and .bytes
\* returns b: the version and variant bits are not imposed on it.
C5_RoundTrip ==
    /\ \A i \in 1..Len(objs) : Parsed(i) => objs[i].bytes = objs[i].input
    /\ (last.op = "bytes" /\ Parsed(last.self)) =>
            last.buf = objs[last.self].input

\* .bytes has just returned sixteen 0xff bytes (version 15, variant 3) from
\* a Uuid parsed from them.
C5_Witness ==
    /\ last.op = "bytes"
    /\ Parsed(last.self)
    /\ objs[last.self].input = AllOnes
    /\ last.buf = AllOnes
    /\ last.buf[7] \div 16 # 4

\* C6: uuid == other on two Uuid objects succeeds and is true exactly when
\* all 16 bytes are pairwise equal.
C6_EqIsByteEquality ==
    (last.op = "eq" /\ last.other # 0) =>
        /\ last.status = 0
        /\ last.error = "None"
        /\ last.retBool <=>
              \A k \in 1..16 :
                 objs[last.self].bytes[k] = objs[last.other].bytes[k]

\* == has just returned False on two Uuids that differ in their last byte
\* only.
C6_Witness ==
    /\ last.op = "eq"
    /\ last.other # 0
    /\ objs[last.self].bytes = Mixed
    /\ objs[last.other].bytes = MixedLast
    /\ last.retBool = FALSE

\* C7: version(), variant() and info() succeed on every 16 bytes; the
\* version is the high nibble of byte 6 (0..15), the variant is 2 whenever
\* the top two bits of byte 8 are 10, and the test vector
\* 00 00 00 00 00 00 40 00 80 00 ... reports version 4, variant 2.
C7_GetInfoIsBitRead ==
    /\ last.op \in {"version", "variant", "info"} =>
          (last.status = 0 /\ last.error = "None")
    /\ last.op = "version" =>
          /\ last.retInt = objs[last.self].bytes[7] \div 16
          /\ last.retInt \in 0..15
    /\ (last.op = "variant" /\ objs[last.self].bytes[9] \div 64 = 2) =>
          last.retInt = 2
    /\ last.op = "info" =>
          /\ last.retPair[1] = objs[last.self].bytes[7] \div 16
          /\ objs[last.self].bytes[9] \div 64 = 2 => last.retPair[2] = 2
          /\ objs[last.self].bytes = TestVector => last.retPair = <<4, 2>>

\* info() has just returned (4, 2) on a Uuid parsed from the test vector.
C7_Witness ==
    /\ last.op = "info"
    /\ Parsed(last.self)
    /\ objs[last.self].input = TestVector
    /\ last.retPair = <<4, 2>>

\* C8: to_string with a stated capacity below 37 (10, for one) fails with
\* BufferTooSmall and leaves every character of the caller's buffer as it
\* was.
C8_TooSmallWritesNothing ==
    (last.op = "to_string" /\ last.cap < 37) =>
        /\ last.status = 3
        /\ last.error = "BufferTooSmallError"
        /\ \A k \in 1..Len(last.buf) : last.buf[k] = Sentinel

\* to_string has just failed with a stated capacity of 10.
C8_Witness ==
    /\ last.op = "to_string"
    /\ last.cap = 10
    /\ last.status = 3
    /\ Len(last.buf) = CallerBufLen

\* C9 as stated: whatever the interleaving of first calls, at most one
\* UuidGenerator is constructed and every caller gets that instance.
C9_InitialisedOnce ==
    /\ constructed <= 1
    /\ \A t, u \in Threads :
         (thr[t].ret # 0 /\ thr[u].ret # 0) => thr[t].ret = thr[u].ret

\* C10: a generate call makes exactly one call of uuid_generate_v4; when
\* that returns a nonzero status the call raises the matching error and no
\* Uuid is made.
C10_FailureReportedOnce ==
    last.op = "generate" =>
        /\ last.libcalls = 1
        /\ last.status # 0 =>
              /\ last.error \in UuidErrors
              /\ last.status = 1 => last.error = "EntropyError"
              /\ last.created = 0
        /\ last.created # 0 => last.status = 0

\* generate has just failed with the entropy failure status while a Uuid
\* made earlier is still the only one.
C10_Witness ==
    /\ last.op = "generate"
    /\ last.status = 1
    /\ last.error = "EntropyError"
    /\ last.created = 0
    /\ Len(objs) = 1

====
